---- MODULE Spec2Model ----
(***************************************************************************)
(* Model of the transcript acquisition code of youtube_summary:            *)
(*   transcript_available.py  extract_video_id, format_duration,           *)
(*                            get_transcript                               *)
(*   main.py                  fetch_transcripts (POST /api/transcripts)    *)
(*   new-app.py               AppManager: start_backend, start_frontend,   *)
(*                            monitor_output, cleanup, run                 *)
(* Python strings are sequences of one-character strings.  Times are       *)
(* integers counting tenths of a second, so that int() truncation is       *)
(* observable.                                                             *)
(***************************************************************************)
EXTENDS Integers, Sequences, FiniteSets, TLC

VARIABLES
  pc,                 \* position inside get_transcript
  caller,             \* who called get_transcript: "direct" or "handler"
  url,                \* get_transcript argument
  video_id,           \* what extract_video_id returned at line 74
  preferred_language, \* get_transcript argument, converted at line 94
  provider,           \* what the captions provider answered during the call
  selected,           \* transcript, language, is_generated of get_transcript
  result,             \* the result dict of get_transcript
  calls,              \* provider calls made by the running get_transcript
  outcome,            \* what get_transcript returned or raised
  hpc,                \* position of fetch_transcripts
  request,            \* the TranscriptRequest being handled
  idx,                \* index of the url the outer loop is at
  attempt,            \* range(3) loop variable
  all_transcripts,    \* url -> TranscriptData
  failed_urls,        \* list of {"url", "error"}
  log,                \* per url index: attempts, provider calls, sleeps
  response,           \* HTTP response of fetch_transcripts
  apc,                \* position of AppManager.run
  cpc,                \* position inside AppManager.cleanup
  origin,             \* where the running cleanup was invoked from
  frontend_process,   \* self.frontend_process
  backend_process,    \* self.backend_process
  signalled           \* processes sent terminate by the running cleanup

vars == <<pc, caller, url, video_id, preferred_language, provider, selected,
          result, calls, outcome, hpc, request, idx, attempt, all_transcripts,
          failed_urls, log, response, apc, cpc, origin, frontend_process,
          backend_process, signalled>>

engineVars == <<pc, caller, url, video_id, preferred_language, provider,
                selected, result, calls, outcome>>

appVars == <<apc, cpc, origin, frontend_process, backend_process, signalled>>
handlerVars == <<hpc, request, idx, attempt, all_transcripts, failed_urls,
                 log, response>>

-----------------------------------------------------------------------------
(* Bounds *)

MaxTracks == 2        \* tracks per origin in a catalog
MaxUrls == 2          \* urls in one batch request
MaxEntries == 2       \* entries in one fetched payload

-----------------------------------------------------------------------------
(* Strings *)

InSeq(x, s) == \E i \in 1..Len(s) : s[i] = x

StartsWith(s, p) == Len(p) <= Len(s) /\ SubSeq(s, 1, Len(p)) = p

LowerChar(c) ==
  CASE c = "E" -> "e" [] c = "N" -> "n" [] c = "H" -> "h" [] c = "I" -> "i"
    [] c = "U" -> "u" [] c = "S" -> "s" [] OTHER -> c

Lower(s) == [i \in 1..Len(s) |-> LowerChar(s[i])]

Whitespace == {" ", "\n", "\t"}

RECURSIVE LStrip(_)
LStrip(s) ==
  IF s # <<>> /\ Head(s) \in Whitespace THEN LStrip(Tail(s)) ELSE s

RECURSIVE RStrip(_)
RStrip(s) ==
  IF s # <<>> /\ s[Len(s)] \in Whitespace
  THEN RStrip(SubSeq(s, 1, Len(s) - 1)) ELSE s

Strip(s) == LStrip(RStrip(s))

-----------------------------------------------------------------------------
(* extract_video_id *)

IdChars ==
  {"0", "1", "2", "3", "4", "5", "6", "7", "8", "9",
   "A", "B", "C", "D", "E", "F", "G", "H", "I", "J", "K", "L", "M",
   "N", "O", "P", "Q", "R", "S", "T", "U", "V", "W", "X", "Y", "Z",
   "a", "b", "c", "d", "e", "f", "g", "h", "i", "j", "k", "l", "m",
   "n", "o", "p", "q", "r", "s", "t", "u", "v", "w", "x", "y", "z",
   "_", "-"}

\* a group one character short
IdLenShort == 11 - 1

IdLen == 11

\* the three regular expressions, each a set of alternative literal
\* prefixes followed by the group ([0-9A-Za-z_-]{11})
patterns ==
  << {<<"v", "=">>, <<"/">>},
     {<<"y", "o", "u", "t", "u", ".", "b", "e", "/">>},
     {<<"e", "m", "b", "e", "d", "/">>} >>

\* the pattern matches with its literal prefix at position i
MatchAt(s, i, prefix) ==
  /\ i + Len(prefix) + IdLen - 1 <= Len(s)
  /\ SubSeq(s, i, i + Len(prefix) - 1) = prefix
  /\ \A k \in 0..(IdLen - 1) : s[i + Len(prefix) + k] \in IdChars

\* re.search: the leftmost match and its group(1); <<>> stands for no match
ReSearch(pattern, s) ==
  LET hits == {i \in 1..Len(s) : \E p \in pattern : MatchAt(s, i, p)}
  IN IF hits = {} THEN <<>>
     ELSE LET i == CHOOSE j \in hits : \A k \in hits : j <= k
              p == CHOOSE q \in pattern : MatchAt(s, i, q)
          IN SubSeq(s, i + Len(p), i + Len(p) + IdLen - 1)

\* for pattern in patterns: the first pattern that matches wins
RECURSIVE FirstMatch(_, _)
FirstMatch(k, s) ==
  IF k > Len(patterns) THEN <<>>
  ELSE LET m == ReSearch(patterns[k], s)
       IN IF m # <<>> THEN m ELSE FirstMatch(k + 1, s)

\* raised stands for TranscriptError("Invalid YouTube URL format. ...")
extract_video_id(s) ==
  LET m == FirstMatch(1, s)
  IN [raised |-> m = <<>>, video_id |-> m]

WatchUrl ==
  <<"h", "t", "t", "p", "s", ":", "/", "/", "w", "w", "w", ".", "y", "o", "u", "t", "u", "b", "e", ".", "c", "o", "m", "/", "w", "a", "t", "c", "h", "?", "v", "=", "V", "-", "L", "L", "r", "I", "l", "F", "A", "d", "Q">>

ShortUrl ==
  <<"h", "t", "t", "p", "s", ":", "/", "/", "y", "o", "u", "t", "u", ".", "b", "e", "/", "V", "-", "L", "L", "r", "I", "l", "F", "A", "d", "Q">>

BadUrl ==
  <<"n", "o", "t", " ", "a", " ", "v", "i", "d", "e", "o">>

Urls == {WatchUrl, ShortUrl, BadUrl}

\* identifiers of 11 characters of [0-9A-Za-z_-]
Ids ==
  {<<"V", "-", "L", "L", "r", "I", "l", "F", "A", "d", "Q">>,
   <<"d", "Q", "w", "4", "w", "9", "W", "g", "X", "c", "Q">>,
   <<"-", "_", "-", "_", "-", "_", "-", "_", "-", "_", "-">>,
   <<"0", "0", "0", "0", "0", "0", "0", "0", "0", "0", "0">>}

\* the supported formats of the docstring, with and without scheme and www
WatchForms(id) ==
  {<<"h", "t", "t", "p", "s", ":", "/", "/", "w", "w", "w", ".", "y", "o", "u", "t", "u", "b", "e", ".", "c", "o", "m", "/", "w", "a", "t", "c", "h", "?", "v", "=">> \o id,
   <<"y", "o", "u", "t", "u", "b", "e", ".", "c", "o", "m", "/", "w", "a", "t", "c", "h", "?", "v", "=">> \o id}

ShortForms(id) ==
  {<<"h", "t", "t", "p", "s", ":", "/", "/", "y", "o", "u", "t", "u", ".", "b", "e", "/">> \o id,
   <<"y", "o", "u", "t", "u", ".", "b", "e", "/">> \o id}

EmbedForms(id) ==
  {<<"h", "t", "t", "p", "s", ":", "/", "/", "w", "w", "w", ".", "y", "o", "u", "t", "u", "b", "e", ".", "c", "o", "m", "/", "e", "m", "b", "e", "d", "/">> \o id,
   <<"y", "o", "u", "t", "u", "b", "e", ".", "c", "o", "m", "/", "e", "m", "b", "e", "d", "/">> \o id}

\* strings that are no video url: no text, prose, the site's front page, a
\* playlist, a channel page, a page of another site
NoVideoUrls ==
  {<<>>,
   BadUrl,
   <<"h", "t", "t", "p", "s", ":", "/", "/", "w", "w", "w", ".", "y", "o", "u", "t", "u", "b", "e", ".", "c", "o", "m", "/">>,
   <<"h", "t", "t", "p", "s", ":", "/", "/", "w", "w", "w", ".", "y", "o", "u", "t", "u", "b", "e", ".", "c", "o", "m", "/", "p", "l", "a", "y", "l", "i", "s", "t", "?", "l", "i", "s", "t", "=", "P", "L", "1">>,
   <<"h", "t", "t", "p", "s", ":", "/", "/", "w", "w", "w", ".", "y", "o", "u", "t", "u", "b", "e", ".", "c", "o", "m", "/", "c", "h", "a", "n", "n", "e", "l", "/", "U", "C", "a", "b", "c", "d", "e", "f", "g", "h", "i", "j", "k">>,
   <<"h", "t", "t", "p", "s", ":", "/", "/", "e", "x", "a", "m", "p", "l", "e", ".", "c", "o", "m", "/", "h", "e", "l", "l", "o", "-", "w", "o", "r", "l", "d">>}

ResolverInputs ==
  UNION {WatchForms(id) \cup ShortForms(id) \cup EmbedForms(id) : id \in Ids}
    \cup NoVideoUrls

-----------------------------------------------------------------------------
(* Languages and the track catalog *)

en == <<"e", "n">>
hi == <<"h", "i">>
auto == <<"a", "u", "t", "o">>
enUS == <<"e", "n", "-", "U", "S">>
fr == <<"f", "r">>
EN == <<"E", "N">>

\* class TranscriptLanguage(str, Enum)
TranscriptLanguage == {en, hi, auto}

\* the languageCodes a provider catalog may hold
LanguageCodes == {en, enUS, hi, fr}

\* preferred_language arguments: a TranscriptLanguage or a string naming one
Preferences == {en, hi, auto, EN}

\* a dict of tracks in insertion order, keyed by languageCode
TrackDicts ==
  {s \in UNION {[1..n -> LanguageCodes] : n \in 0..MaxTracks} :
     \A i, j \in 1..Len(s) : i # j => s[i] # s[j]}

\* the Transcript object stored under key c of the manual / generated dict
Track(c, generated) == [language_code |-> c, is_generated |-> generated]

\* a merge in which a key of the manual dict keeps its manual track
AllTranscriptsKeepsManual(manual, generated) ==
  LET kept == [i \in 1..Len(manual) |->
                 [lang_code |-> manual[i], trans |-> Track(manual[i], FALSE)]]
      added == SelectSeq(generated, LAMBDA c : ~InSeq(c, manual))
  IN kept \o [i \in 1..Len(added) |->
                 [lang_code |-> added[i], trans |-> Track(added[i], TRUE)]]

\* all_transcripts = manual.copy(); all_transcripts.update(generated)
\* a dict keeps the position of a key it already holds and replaces its value
AllTranscripts(manual, generated) ==
  LET kept == [i \in 1..Len(manual) |->
                 [lang_code |-> manual[i],
                  trans |-> Track(manual[i], InSeq(manual[i], generated))]]
      added == SelectSeq(generated, LAMBDA c : ~InSeq(c, manual))
  IN kept \o [i \in 1..Len(added) |->
                 [lang_code |-> added[i], trans |-> Track(added[i], TRUE)]]

NoTrack == Track(<<>>, FALSE)

NoSelection ==
  [transcript |-> NoTrack, found |-> FALSE, language |-> <<>>,
   is_generated |-> FALSE]

\* FindTrack comparing the whole languageCode instead of its prefix
FindTrackExact(all, lang, generated) ==
  LET hits == {i \in 1..Len(all) : all[i].lang_code = lang}
  IN IF hits = {} THEN NoSelection
     ELSE LET i == CHOOSE j \in hits : \A k \in hits : j <= k
          IN [transcript |-> all[i].trans, found |-> TRUE,
              language |-> all[i].lang_code,
              is_generated |-> InSeq(all[i].lang_code, generated)]

\* for lang_code, trans in all_transcripts.items():
\*     if lang_code.startswith(lang): ...; break
FindTrack(all, lang, generated) ==
  LET hits == {i \in 1..Len(all) : StartsWith(all[i].lang_code, lang)}
  IN IF hits = {} THEN NoSelection
     ELSE LET i == CHOOSE j \in hits : \A k \in hits : j <= k
          IN [transcript |-> all[i].trans, found |-> TRUE,
              language |-> all[i].lang_code,
              is_generated |-> InSeq(all[i].lang_code, generated)]

\* First try: the preferred language
FirstTry(pref, manual, generated) ==
  IF pref # auto
  THEN FindTrack(AllTranscripts(manual, generated), pref, generated)
  ELSE NoSelection

\* the fallback list with Hindi tried first
FallbackLanguagesHindiFirst == <<hi, en>>

\* for lang in [ENGLISH.value, HINDI.value]
FallbackLanguages == <<en, hi>>

\* Second try: English, then Hindi
RECURSIVE TryLanguages(_, _, _, _)
TryLanguages(k, langs, manual, generated) ==
  IF k > Len(langs) THEN NoSelection
  ELSE LET s == FindTrack(AllTranscripts(manual, generated), langs[k],
                          generated)
       IN IF s.found THEN s
          ELSE TryLanguages(k + 1, langs, manual, generated)

SecondTry(sel, manual, generated) ==
  IF ~sel.found THEN TryLanguages(1, FallbackLanguages, manual, generated)
  ELSE sel

\* ThirdTry without the raise for an empty catalog
ThirdTryNoRaise(sel, manual, generated) ==
  IF ~sel.found /\ AllTranscripts(manual, generated) # <<>>
  THEN LET all == AllTranscripts(manual, generated)
       IN [raised |-> FALSE,
           sel |-> [transcript |-> all[1].trans, found |-> TRUE,
                    language |-> all[1].lang_code,
                    is_generated |-> InSeq(all[1].lang_code, generated)]]
  ELSE [raised |-> FALSE, sel |-> sel]

\* Third try: any track; raised stands for NoTranscriptFound
ThirdTry(sel, manual, generated) ==
  IF ~sel.found
  THEN LET all == AllTranscripts(manual, generated)
       IN IF all # <<>>
          THEN [raised |-> FALSE,
                sel |-> [transcript |-> all[1].trans, found |-> TRUE,
                         language |-> all[1].lang_code,
                         is_generated |-> InSeq(all[1].lang_code, generated)]]
          ELSE [raised |-> TRUE, sel |-> sel]
  ELSE [raised |-> FALSE, sel |-> sel]

\* lines 96-148 of get_transcript
SelectTrack(pref, manual, generated) ==
  ThirdTry(SecondTry(FirstTry(pref, manual, generated), manual, generated),
           manual, generated)

-----------------------------------------------------------------------------
(* Payloads, normalisation and rendering *)

Fields == {"start", "duration", "text"}

\* one item of a payload: a dict (record-shaped) or an object
\* (attribute-shaped) holding the fields named in fields
Entry(form, fields, start, duration, text) ==
  [form |-> form, fields |-> fields, start |-> start,
   duration |-> duration, text |-> text]

\* shape: "list" a plain list, "iterable" another iterable, "wrapper" a
\* non-iterable object with a transcript attribute, "opaque" none of these
Payload(shape, items) == [shape |-> shape, items |-> items]

HasAttr(e, f) == e.form = "obj" /\ f \in e.fields

HasKey(e, f) == e.form = "dict" /\ f \in e.fields

\* Normalize copying entry.start into 'duration' when it converts an object
NormalizeLosesDuration(fetched) ==
  CASE fetched.shape = "list" -> fetched.items
    [] fetched.shape = "iterable" ->
         LET keep == SelectSeq(fetched.items,
                       LAMBDA e : \/ \A f \in Fields : HasAttr(e, f)
                                  \/ \A f \in Fields : HasKey(e, f))
         IN [i \in 1..Len(keep) |->
               IF keep[i].form = "obj"
               THEN [keep[i] EXCEPT !.form = "dict",
                                    !.duration = keep[i].start]
               ELSE keep[i]]
    [] fetched.shape = "wrapper" -> fetched.items
    [] OTHER -> <<>>

\* lines 162-187: transcript_data built from fetched_transcript
Normalize(fetched) ==
  CASE fetched.shape = "list" -> fetched.items
    [] fetched.shape = "iterable" ->
         LET keep == SelectSeq(fetched.items,
                       LAMBDA e : \/ \A f \in Fields : HasAttr(e, f)
                                  \/ \A f \in Fields : HasKey(e, f))
         IN [i \in 1..Len(keep) |-> [keep[i] EXCEPT !.form = "dict"]]
    [] fetched.shape = "wrapper" -> fetched.items
    [] OTHER -> <<>>

\* decimal digits of a natural number
RECURSIVE NatToStr(_)
NatToStr(n) ==
  LET d == <<"0", "1", "2", "3", "4", "5", "6", "7", "8", "9">>
  IN IF n < 10 THEN <<d[n + 1]>>
     ELSE NatToStr(n \div 10) \o <<d[(n % 10) + 1]>>

Pad2(n) == IF n < 10 THEN <<"0">> \o NatToStr(n) ELSE NatToStr(n)

\* str(timedelta(seconds=int(seconds))), seconds given in tenths
format_duration(tenths) ==
  LET secs == tenths \div 10
      days == secs \div 86400
      rest == secs % 86400
      clock == NatToStr(rest \div 3600) \o <<":">>
                 \o Pad2((rest % 3600) \div 60) \o <<":">> \o Pad2(rest % 60)
  IN IF days = 0 THEN clock
     ELSE NatToStr(days) \o <<" ", "d", "a", "y">>
            \o (IF days = 1 THEN <<>> ELSE <<"s">>) \o <<",", " ">> \o clock

\* the duration taken from the first entry
DurationOfFirst(transcript_data) ==
  IF transcript_data = <<>> THEN [raised |-> FALSE, duration |-> 0]
  ELSE LET first == transcript_data[1]
       IN [raised |-> FALSE,
           duration |-> (IF "start" \in first.fields THEN first.start
                         ELSE 0)
                        + (IF "duration" \in first.fields
                           THEN first.duration ELSE 0)]

\* lines 198-209: duration from the last entry; raised stands for KeyError
Duration(transcript_data) ==
  IF transcript_data = <<>> THEN [raised |-> FALSE, duration |-> 0]
  ELSE LET last == transcript_data[Len(transcript_data)]
       IN IF last.form = "dict"
          THEN IF "start" \in last.fields /\ "duration" \in last.fields
               THEN [raised |-> FALSE,
                     duration |-> last.start + last.duration]
               ELSE [raised |-> TRUE, duration |-> 0]
          ELSE [raised |-> FALSE,
                duration |-> (IF HasAttr(last, "start") THEN last.start
                              ELSE 0)
                             + (IF HasAttr(last, "duration")
                                THEN last.duration ELSE 0)]

\* one pass of a rendering loop body; sniff says whether the loop tests
\* isinstance(entry, dict) before falling back to attribute access
Line(e, sniff) ==
  IF sniff /\ e.form = "dict"
  THEN IF "start" \in e.fields /\ "text" \in e.fields
       THEN [raised |-> FALSE, timestamp |-> format_duration(e.start),
             text |-> Strip(e.text)]
       ELSE [raised |-> TRUE, timestamp |-> <<>>, text |-> <<>>]
  ELSE [raised |-> FALSE,
        timestamp |-> format_duration(IF HasAttr(e, "start") THEN e.start
                                      ELSE 0),
        text |-> IF HasAttr(e, "text") THEN Strip(e.text) ELSE <<>>]

\* full_transcript += f"[{timestamp}] {text}\n" for every entry with text
RECURSIVE Render(_, _)
Render(entries, sniff) ==
  IF entries = <<>> THEN [raised |-> FALSE, text |-> <<>>]
  ELSE LET l == Line(Head(entries), sniff)
           r == Render(Tail(entries), sniff)
       IN IF l.raised \/ r.raised THEN [raised |-> TRUE, text |-> <<>>]
          ELSE [raised |-> FALSE,
                text |-> (IF l.text # <<>>
                          THEN <<"[">> \o l.timestamp \o <<"]", " ">>
                                 \o l.text \o <<"\n">>
                          ELSE <<>>) \o r.text]

\* lines 245-280: the translated payload rendered by shape
RenderTranslated(translated_transcript) ==
  CASE translated_transcript.shape = "list" ->
         Render(translated_transcript.items, TRUE)
    [] translated_transcript.shape = "iterable" ->
         Render(translated_transcript.items, FALSE)
    [] translated_transcript.shape = "wrapper" ->
         Render(translated_transcript.items, TRUE)
    [] OTHER -> [raised |-> FALSE, text |-> <<>>]

-----------------------------------------------------------------------------
(* The captions provider *)

e_a == Entry("dict", Fields, 0, 20, <<"a">>)
e_b == Entry("dict", Fields, 59, 30, <<" ", "b", " ">>)
e_blank == Entry("dict", Fields, 80, 10, <<" ">>)
e_nostart == Entry("dict", {"duration", "text"}, 0, 10, <<"a">>)
o_a == Entry("obj", Fields, 0, 20, <<"a">>)

\* payloads the provider may answer a fetch with
Payloads ==
  {Payload("list", <<e_a, e_b>>), Payload("list", <<e_a, e_blank>>),
   Payload("list", <<e_nostart>>), Payload("list", <<>>),
   Payload("iterable", <<o_a>>), Payload("opaque", <<>>)}

\* what the items of a payload may be made of: a start and a duration in
\* tenths of a second, a text that is blank, plain, padded or of two lines;
\* a field an item lacks holds 0 or the empty text
Forms == {"dict", "obj"}

Starts == {615}

Durations == {20}

Texts == {<<" ">>, <<"a">>, <<" ", "b", " ">>, <<"c", "\n", "d">>}

ProviderEntries ==
  {e \in [form : Forms, fields : SUBSET Fields, start : Starts \cup {0},
          duration : Durations \cup {0}, text : Texts \cup {<<>>}] :
     /\ ("start" \in e.fields) <=> (e.start \in Starts)
     /\ ("duration" \in e.fields) <=> (e.duration \in Durations)
     /\ ("text" \in e.fields) <=> (e.text \in Texts)}

\* every payload of up to MaxEntries items, in each of the four shapes
ProviderPayloads ==
  {Payload(shape, items) :
     shape \in {"list", "iterable", "wrapper"},
     items \in UNION {[1..n -> ProviderEntries] : n \in 0..MaxEntries}}
  \cup {Payload("opaque", <<>>)}

\* payloads of complete items whose starts reach from 0 over an hour to one
\* and two days, in tenths of a second, with one-line texts
TimestampStarts == {0, 59, 36615, 863999, 864000, 900000, 1728000}

TimestampEntries ==
  {Entry(form, Fields, start, 20, text) :
     form \in Forms, start \in TimestampStarts,
     text \in {<<"a">>, <<" ", "b", " ">>}}

TimestampPayloads ==
  {Payload(shape, items) :
     shape \in {"list", "iterable"},
     items \in UNION {[1..n -> TimestampEntries] : n \in 1..MaxEntries}}

\* an item of translation_languages: the bare code, or a dict around it
TLItem(code, plain) == [language_code |-> code, plain |-> plain]

TranslationLists ==
  {<<>>, <<TLItem(en, TRUE), TLItem(hi, TRUE)>>,
   <<TLItem(en, FALSE), TLItem(hi, FALSE)>>}

\* nothing answered yet
NoAnswers ==
  [list |-> "", manual |-> <<>>, generated |-> <<>>,
   fetch |-> "", payload |-> Payload("opaque", <<>>),
   tl_read |-> "", translation_languages |-> <<>>,
   is_translatable |-> FALSE, translate |-> "",
   tfetch |-> "", tpayload |-> Payload("opaque", <<>>)]

\* a call made to the provider: what was called, on which track, what the
\* provider answered and, for a listing, how many tracks it held
Call(op, track, answer, size) ==
  [op |-> op, track |-> track, answer |-> answer, size |-> size]

-----------------------------------------------------------------------------
(* get_transcript *)

MsgFailedToGet == "Failed to get transcript: "
MsgInvalidUrl == "Invalid YouTube URL format. Please provide a valid YouTube video URL."
MsgNoAccess == "Could not access video transcripts. Please check if the video exists and has captions enabled."
MsgNotALanguage == "is not a valid TranscriptLanguage"
MsgNoTranscript == "No transcript available for this video. Please check if captions are enabled."
MsgFetchFailed == "Failed to fetch transcript data: "
MsgNoData == "Couldn't extract transcript data"
MsgProvider == "provider error"
MsgKeyError == "KeyError"
MsgUnexpectedKeyword == "get_transcript() got an unexpected keyword argument 'max_retries'"

NoResult ==
  [text |-> <<>>, language |-> <<>>, duration |-> 0, translated |-> FALSE,
   original_language |-> <<>>, is_generated |-> FALSE]

Returned(r) ==
  [raised |-> FALSE, exc |-> "", error |-> <<>>, result |-> r]

Raised(exc, msgs) ==
  [raised |-> TRUE, exc |-> exc, error |-> msgs, result |-> NoResult]

\* Assemble that lets an empty transcript_data through
AssembleUnchecked(fetched) ==
  LET transcript_data == Normalize(fetched)
      d == Duration(transcript_data)
      t == Render(transcript_data, TRUE)
  IN IF d.raised \/ t.raised
     THEN [raised |-> TRUE, error |-> <<MsgKeyError>>, text |-> <<>>,
           duration |-> 0]
     ELSE [raised |-> FALSE, error |-> <<>>, text |-> Strip(t.text),
           duration |-> d.duration]

\* lines 162-226: transcript_data, duration and text of a fetched payload;
\* raised stands for the TranscriptError of line 190 wrapped at line 195, or
\* for a KeyError of lines 203-217
Assemble(fetched) ==
  LET transcript_data == Normalize(fetched)
      d == Duration(transcript_data)
      t == Render(transcript_data, TRUE)
  IN IF transcript_data = <<>>
     THEN [raised |-> TRUE, error |-> <<MsgFetchFailed, MsgNoData>>,
           text |-> <<>>, duration |-> 0]
     ELSE IF d.raised \/ t.raised
     THEN [raised |-> TRUE, error |-> <<MsgKeyError>>, text |-> <<>>,
           duration |-> 0]
     ELSE [raised |-> FALSE, error |-> <<>>, text |-> Strip(t.text),
           duration |-> d.duration]

\* lines 225-232: the result dict before any translation
OriginalResult(a, sel) ==
  [text |-> a.text, language |-> sel.language, duration |-> a.duration,
   translated |-> FALSE, original_language |-> sel.language,
   is_generated |-> sel.is_generated]

\* an update that leaves original_language as the preference
TranslatedResultSwapped(r, text, pref, language) ==
  [r EXCEPT !.text = text, !.language = language, !.translated = TRUE,
            !.original_language = pref]

\* lines 282-287: result.update({...})
TranslatedResult(r, text, pref, language) ==
  [r EXCEPT !.text = text, !.language = pref, !.translated = TRUE,
            !.original_language = language]

\* lines 299-301: whatever is raised inside leaves as TranscriptError
Fail(msgs) ==
  /\ outcome' = Raised("TranscriptError", <<MsgFailedToGet>> \o msgs)
  /\ pc' = "returned"

\* line 292
Return(r) ==
  /\ outcome' = Returned(r)
  /\ pc' = "returned"

\* an entry that goes on to the listing whatever the reference
EnterUnresolved(u, p, who) ==
  /\ url' = u
  /\ video_id' = extract_video_id(u).video_id
  /\ preferred_language' = p
  /\ caller' = who
  /\ provider' = NoAnswers
  /\ selected' = NoSelection
  /\ result' = NoResult
  /\ calls' = <<>>
  /\ pc' = "list" /\ outcome' = Returned(NoResult)

\* lines 72-74: the call begins and resolves the reference
Enter(u, p, who) ==
  /\ url' = u
  /\ video_id' = extract_video_id(u).video_id
  /\ preferred_language' = p
  /\ caller' = who
  /\ provider' = NoAnswers
  /\ selected' = NoSelection
  /\ result' = NoResult
  /\ calls' = <<>>
  /\ IF extract_video_id(u).raised
     THEN Fail(<<MsgInvalidUrl>>)
     ELSE pc' = "list" /\ outcome' = Returned(NoResult)

\* get_transcript(url, lang) called as test_transcript calls it, with a url
\* of U
DirectCallWith(U) ==
  /\ pc = "idle" /\ hpc = "idle"
  /\ \E u \in U, p \in Preferences : Enter(u, p, "direct")
  /\ UNCHANGED <<handlerVars, appVars>>

DirectCall == DirectCallWith(Urls)

\* lines 76-157: list_transcripts, language conversion, track selection
ListTranscripts ==
  /\ pc = "list"
  /\ \/ /\ \E a \in {"error", "disabled"} :
             /\ provider' = [provider EXCEPT !.list = a]
             /\ calls' = Append(calls, Call("listTracks", NoTrack, a, 0))
        /\ Fail(<<MsgNoAccess>>)
        /\ UNCHANGED <<preferred_language, selected>>
     \/ \E m \in TrackDicts, g \in TrackDicts :
          /\ provider' = [provider EXCEPT !.list = "ok", !.manual = m,
                                          !.generated = g]
          /\ calls' = Append(calls, Call("listTracks", NoTrack, "ok",
                                         Len(m) + Len(g)))
          /\ IF Lower(preferred_language) \notin TranscriptLanguage
             THEN /\ Fail(<<MsgNotALanguage>>)
                  /\ UNCHANGED <<preferred_language, selected>>
             ELSE LET pl == Lower(preferred_language)
                      s == SelectTrack(pl, m, g)
                  IN /\ preferred_language' = pl
                     /\ selected' = s.sel
                     /\ IF s.raised
                        THEN Fail(<<MsgNoTranscript>>)
                        ELSE pc' = "fetch" /\ UNCHANGED outcome
  /\ UNCHANGED <<caller, url, video_id, result>>
  /\ UNCHANGED <<handlerVars, appVars>>

\* lines 234-236
NeedsTranslation ==
  preferred_language # auto /\ selected.language # preferred_language

\* lines 159-236: fetch, normalise, assemble; P is what the provider may
\* answer with
FetchTrackFrom(P) ==
  /\ pc = "fetch"
  /\ \/ /\ provider' = [provider EXCEPT !.fetch = "error"]
        /\ calls' = Append(calls, Call("fetchTrack", selected.transcript,
                                       "error", 0))
        /\ Fail(<<MsgFetchFailed, MsgProvider>>)
        /\ UNCHANGED result
     \/ \E fetched_transcript \in P :
          /\ provider' = [provider EXCEPT !.fetch = "ok",
                                          !.payload = fetched_transcript]
          /\ calls' = Append(calls, Call("fetchTrack", selected.transcript,
                                         "ok", 0))
          /\ LET a == Assemble(fetched_transcript)
                 r == OriginalResult(a, selected)
             IN IF a.raised
                THEN Fail(a.error) /\ UNCHANGED result
                ELSE /\ result' = r
                     /\ IF NeedsTranslation
                        THEN pc' = "translation_languages"
                             /\ UNCHANGED outcome
                        ELSE Return(r)
  /\ UNCHANGED <<caller, url, video_id, preferred_language, selected>>
  /\ UNCHANGED <<handlerVars, appVars>>

FetchTrack == FetchTrackFrom(Payloads)

\* a translation path whose failures leave get_transcript
UseOriginalRaises == Fail(<<MsgProvider>>)

\* lines 289-292: except Exception logs a warning and the untouched result
\* is returned
UseOriginal == Return(result)

\* lines 237-242: the advertised translation set is read and searched
ReadTranslationLanguages ==
  /\ pc = "translation_languages"
  /\ \/ /\ provider' = [provider EXCEPT !.tl_read = "error"]
        /\ UseOriginal
     \/ \E tl \in TranslationLists :
          /\ provider' = [provider EXCEPT !.tl_read = "ok",
                                          !.translation_languages = tl]
          /\ IF InSeq(TLItem(preferred_language, TRUE), tl)
             THEN pc' = "translate" /\ UNCHANGED outcome
             ELSE Return(result)
  /\ UNCHANGED <<caller, url, video_id, preferred_language, selected, result,
                 calls>>
  /\ UNCHANGED <<handlerVars, appVars>>

\* line 243: transcript.translate(preferred_language.value)
TranslateTrack ==
  /\ pc = "translate"
  /\ \E tr \in BOOLEAN, a \in {"ok", "error"} :
       /\ ~tr => a = "error"
       /\ calls' = Append(calls, Call("translateTrack", selected.transcript,
                                      a, 0))
       /\ provider' = [provider EXCEPT !.is_translatable = tr,
                                       !.translate = a]
       /\ IF a = "ok" THEN pc' = "fetch_translated" /\ UNCHANGED outcome
          ELSE UseOriginal
  /\ UNCHANGED <<caller, url, video_id, preferred_language, selected, result>>
  /\ UNCHANGED <<handlerVars, appVars>>

\* translated_transcript_obj: the selected track in the preferred language
TranslatedTrack ==
  [selected.transcript EXCEPT !.language_code = preferred_language]

\* lines 244-290: the translated track fetched and rendered
FetchTranslated ==
  /\ pc = "fetch_translated"
  /\ \/ /\ provider' = [provider EXCEPT !.tfetch = "error"]
        /\ calls' = Append(calls, Call("fetchTrack", TranslatedTrack,
                                       "error", 0))
        /\ UseOriginal
        /\ UNCHANGED result
     \/ \E translated_transcript \in Payloads :
          /\ provider' = [provider EXCEPT !.tfetch = "ok",
                                          !.tpayload = translated_transcript]
          /\ calls' = Append(calls, Call("fetchTrack", TranslatedTrack,
                                         "ok", 0))
          /\ LET t == RenderTranslated(translated_transcript)
                 r == TranslatedResult(result, Strip(t.text),
                                       preferred_language, selected.language)
             IN IF t.raised
                THEN UseOriginal /\ UNCHANGED result
                ELSE Return(r) /\ result' = r
  /\ UNCHANGED <<caller, url, video_id, preferred_language, selected>>
  /\ UNCHANGED <<handlerVars, appVars>>

\* the provider call the code is about to make at pc
PendingCall ==
  CASE pc = "list" -> Call("listTracks", NoTrack, "blocked", 0)
    [] pc = "fetch" -> Call("fetchTrack", selected.transcript, "blocked", 0)
    [] OTHER -> Call("fetchTrack", TranslatedTrack, "blocked", 0)

\* lines 78, 163, 244: a network call that never returns; the calls are made
\* without a timeout and nothing around them bounds the wait
ProviderBlocks ==
  /\ pc \in {"list", "fetch", "fetch_translated"}
  /\ calls' = Append(calls, PendingCall)
  /\ pc' = "blocked"
  /\ UNCHANGED <<caller, url, video_id, preferred_language, provider,
                 selected, result, outcome>>
  /\ UNCHANGED <<handlerVars, appVars>>

-----------------------------------------------------------------------------
(* fetch_transcripts: POST /api/transcripts *)

\* def get_transcript(url, preferred_language=...)
GetTranscriptParameters == {"url", "preferred_language"}

\* get_transcript(url, preferred_language=..., max_retries=1)
CallArguments == {"url", "preferred_language", "max_retries"}

\* Python binds the arguments of a call before the body runs and raises
\* TypeError for a keyword the function does not declare
Binds(arguments, parameters) == arguments \subseteq parameters

\* a retry loop making one more pass
MaxAttemptsOneMore == 3 + 1

\* for attempt in range(3)
MaxAttempts == 3

\* if attempt == 2
LastAttempt == 2

\* a backoff that multiplies instead of raising to the power
BackoffLinear(a) == 2 * a

\* time.sleep(2 ** attempt)
Backoff(a) == 2 ^ a

\* a validated TranscriptRequest
Requests ==
  [urls : UNION {[1..n -> Urls] : n \in 0..MaxUrls},
   preferred_language : TranscriptLanguage]

\* an entry of the log: an attempt begun, a provider call, an error or a
\* success of the attempt, a sleep of n seconds
Event(kind, i, n) == [kind |-> kind, idx |-> i, n |-> n, answer |-> ""]

TranscriptData(r) ==
  [transcript |-> r.text, language |-> r.language, duration |-> r.duration,
   translated |-> r.translated, original_language |-> r.original_language,
   is_generated |-> r.is_generated]

NoResponse ==
  [status_code |-> 0, status |-> "", transcripts |-> <<>>,
   failed_urls |-> <<>>, detail |-> <<>>]

\* lines 96-103: the handler starts on a request
PostRequest ==
  /\ hpc = "idle" /\ pc = "idle"
  /\ \E r \in Requests :
       /\ request' = r
       /\ hpc' = IF r.urls = <<>> THEN "respond" ELSE "attempt"
  /\ all_transcripts' = <<>>
  /\ failed_urls' = <<>>
  /\ idx' = 1
  /\ attempt' = 0
  /\ log' = <<>>
  /\ UNCHANGED response
  /\ UNCHANGED <<engineVars, appVars>>

\* lines 107-117: one pass of the retry loop calls get_transcript
Attempt ==
  /\ hpc = "attempt"
  /\ hpc' = "called"
  /\ log' = Append(log, Event("attempt", idx, attempt))
  /\ IF Binds(CallArguments, GetTranscriptParameters)
     THEN Enter(request.urls[idx], request.preferred_language, "handler")
     ELSE /\ outcome' = Raised("TypeError", <<MsgUnexpectedKeyword>>)
          /\ pc' = "returned"
          /\ caller' = "handler"
          /\ calls' = <<>>
          /\ UNCHANGED <<url, video_id, preferred_language, provider, selected,
                         result>>
  /\ UNCHANGED <<request, idx, attempt, all_transcripts, failed_urls,
                 response>>
  /\ UNCHANGED appVars

\* the next iteration of for url in request.urls
NextUrl ==
  /\ idx' = idx + 1
  /\ attempt' = 0
  /\ hpc' = IF idx + 1 > Len(request.urls) THEN "respond" ELSE "attempt"

\* the provider calls of the finished get_transcript call, for the log
CallEvents(i) ==
  [k \in 1..Len(calls) |->
     [kind |-> calls[k].op, idx |-> i, n |-> calls[k].size,
      answer |-> calls[k].answer]]

\* lines 119-144: the call returned or raised
HandleOutcome ==
  /\ hpc = "called" /\ pc = "returned"
  /\ pc' = "idle"
  /\ IF ~outcome.raised
     THEN /\ all_transcripts' =
               (request.urls[idx] :> TranscriptData(outcome.result))
                 @@ all_transcripts
          /\ log' = log \o CallEvents(idx) \o <<Event("success", idx, attempt)>>
          /\ NextUrl
          /\ UNCHANGED failed_urls
     ELSE /\ log' = log \o CallEvents(idx) \o <<Event("error", idx, attempt)>>
          /\ UNCHANGED all_transcripts
          /\ IF attempt = LastAttempt
             THEN /\ failed_urls' =
                       Append(failed_urls, [url |-> request.urls[idx],
                                            error |-> outcome.error])
                  /\ IF attempt + 1 < MaxAttempts
                     THEN attempt' = attempt + 1 /\ hpc' = "attempt"
                          /\ UNCHANGED idx
                     ELSE NextUrl
             ELSE /\ hpc' = "sleep"
                  /\ UNCHANGED <<failed_urls, idx, attempt>>
  /\ UNCHANGED <<caller, url, video_id, preferred_language, provider,
                 selected, result, calls, outcome, request, response>>
  /\ UNCHANGED appVars

\* lines 137, 144: time.sleep(2 ** attempt), then the next attempt
Sleep ==
  /\ hpc = "sleep"
  /\ log' = Append(log, Event("sleep", idx, Backoff(attempt)))
  /\ IF attempt + 1 < MaxAttempts
     THEN attempt' = attempt + 1 /\ hpc' = "attempt" /\ UNCHANGED idx
     ELSE NextUrl
  /\ UNCHANGED <<request, all_transcripts, failed_urls, response>>
  /\ UNCHANGED <<engineVars, appVars>>

\* lines 146-166: the response of the handler
Respond ==
  /\ hpc = "respond"
  /\ hpc' = "done"
  /\ response' =
       IF DOMAIN all_transcripts = {}
       THEN \* HTTPException(400) is raised inside the try block and caught
            \* by except Exception, which raises HTTPException(500)
            [NoResponse EXCEPT
               !.status_code = 500,
               !.detail = <<[status_code |-> 400,
                             detail |-> IF failed_urls # <<>>
                                        THEN "Failed to process all URLs:"
                                        ELSE "No valid transcripts found",
                             items |-> failed_urls]>>]
       ELSE [NoResponse EXCEPT
               !.status_code = 200, !.status = "success",
               !.transcripts = all_transcripts,
               !.failed_urls = failed_urls]
  /\ UNCHANGED <<request, idx, attempt, all_transcripts, failed_urls, log>>
  /\ UNCHANGED <<engineVars, appVars>>

-----------------------------------------------------------------------------
(* AppManager of new-app.py: the launcher of backend and frontend *)

\* a Popen attribute: None, a child that runs, a child that has exited
ProcessStates == {"None", "running", "exited"}

\* self.cleanup() is entered by the caller named o
InvokeCleanup(o) ==
  /\ cpc' = "frontend"
  /\ origin' = o
  /\ signalled' = {}

\* lines 363-382: run() registers the handlers, checks the frontend and
\* comes to start_backend
RunApp ==
  /\ apc = "idle"
  /\ apc' = "start_backend"
  /\ UNCHANGED <<cpc, origin, frontend_process, backend_process, signalled>>
  /\ UNCHANGED <<engineVars, handlerVars>>

\* lines 139-162: Popen and _wait_for_service; any exception leads to
\* cleanup() and sys.exit(1)
StartBackend ==
  /\ apc = "start_backend" /\ cpc = "idle"
  /\ \/ /\ backend_process' = "running"
        /\ apc' = "start_frontend"
        /\ UNCHANGED <<cpc, origin, signalled>>
     \/ /\ backend_process' \in ProcessStates
        /\ InvokeCleanup("start_failure")
        /\ UNCHANGED apc
  /\ UNCHANGED frontend_process
  /\ UNCHANGED <<engineVars, handlerVars>>

\* lines 164-290: the build steps, Popen and the startup loop; any
\* exception leads to cleanup() and sys.exit(1)
StartFrontend ==
  /\ apc = "start_frontend" /\ cpc = "idle"
  /\ \/ /\ frontend_process' = "running"
        /\ apc' = "monitor"
        /\ UNCHANGED <<cpc, origin, signalled>>
     \/ /\ frontend_process' \in ProcessStates
        /\ InvokeCleanup("start_failure")
        /\ UNCHANGED apc
  /\ UNCHANGED backend_process
  /\ UNCHANGED <<engineVars, handlerVars>>

\* a child ends by itself
ProcessExits ==
  /\ apc \notin {"idle", "exited"}
  /\ \/ /\ frontend_process = "running"
        /\ frontend_process' = "exited"
        /\ UNCHANGED backend_process
     \/ /\ backend_process = "running"
        /\ backend_process' = "exited"
        /\ UNCHANGED frontend_process
  /\ UNCHANGED <<apc, cpc, origin, signalled>>
  /\ UNCHANGED <<engineVars, handlerVars>>

\* lines 354-359: monitor_output finds that a child has terminated
Monitor ==
  /\ apc = "monitor" /\ cpc = "idle"
  /\ frontend_process = "exited" \/ backend_process = "exited"
  /\ InvokeCleanup("monitor")
  /\ UNCHANGED <<apc, frontend_process, backend_process>>
  /\ UNCHANGED <<engineVars, handlerVars>>

\* lines 367-368: SIGINT or SIGTERM runs lambda s, f: self.cleanup()
Signal ==
  /\ apc \in {"start_frontend", "monitor"} /\ cpc = "idle"
  /\ InvokeCleanup("signal")
  /\ UNCHANGED <<apc, frontend_process, backend_process>>
  /\ UNCHANGED <<engineVars, handlerVars>>

\* lines 331-332: if self.frontend_process: terminate()
CleanupFrontend ==
  /\ cpc = "frontend"
  /\ IF frontend_process # "None"
     THEN /\ signalled' = signalled \cup {"frontend"}
          /\ cpc' = "frontend_wait"
     ELSE /\ cpc' = "backend"
          /\ UNCHANGED signalled
  /\ UNCHANGED <<apc, origin, frontend_process, backend_process>>
  /\ UNCHANGED <<engineVars, handlerVars>>

\* line 333: wait(timeout=5) returns once the child has exited and raises
\* TimeoutExpired when it has not within five seconds
WaitFrontend ==
  /\ cpc = "frontend_wait"
  /\ \/ /\ frontend_process' = "exited"
        /\ cpc' = "backend"
     \/ /\ frontend_process = "running"
        /\ cpc' = "raised"
        /\ UNCHANGED frontend_process
  /\ UNCHANGED <<apc, origin, backend_process, signalled>>
  /\ UNCHANGED <<engineVars, handlerVars>>

\* lines 335-336: if self.backend_process: terminate()
CleanupBackend ==
  /\ cpc = "backend"
  /\ IF backend_process # "None"
     THEN /\ signalled' = signalled \cup {"backend"}
          /\ cpc' = "backend_wait"
     ELSE /\ cpc' = "returned"
          /\ UNCHANGED signalled
  /\ UNCHANGED <<apc, origin, frontend_process, backend_process>>
  /\ UNCHANGED <<engineVars, handlerVars>>

\* line 337: wait(timeout=5) on the backend
WaitBackend ==
  /\ cpc = "backend_wait"
  /\ \/ /\ backend_process' = "exited"
        /\ cpc' = "returned"
     \/ /\ backend_process = "running"
        /\ cpc' = "raised"
        /\ UNCHANGED backend_process
  /\ UNCHANGED <<apc, origin, frontend_process, signalled>>
  /\ UNCHANGED <<engineVars, handlerVars>>

\* cleanup() has returned or raised and its caller goes on: a signal
\* handler returns into the interrupted code, or its exception is caught
\* where the code was interrupted; sys.exit(1) of lines 162, 290, 359 and
\* 397 and an exception in the handler of line 394 go to the finally block
\* of line 398; an exception of cleanup() elsewhere goes to except
\* Exception of line 394; after the finally block run() is over
CleanupEnds ==
  /\ cpc \in {"returned", "raised"}
  /\ CASE origin = "signal" /\ cpc = "returned" ->
            /\ cpc' = "idle" /\ origin' = ""
            /\ UNCHANGED <<apc, signalled>>
       [] origin = "signal" /\ cpc = "raised" ->
            /\ InvokeCleanup(IF apc = "start_frontend" THEN "start_failure"
                              ELSE "except")
            /\ UNCHANGED apc
       [] origin \in {"start_failure", "monitor"} ->
            /\ InvokeCleanup(IF cpc = "returned" THEN "finally"
                              ELSE "except")
            /\ UNCHANGED apc
       [] origin = "except" ->
            /\ InvokeCleanup("finally")
            /\ UNCHANGED apc
       [] OTHER ->
            /\ apc' = "exited"
            /\ cpc' = "idle" /\ origin' = ""
            /\ UNCHANGED signalled
  /\ UNCHANGED <<frontend_process, backend_process>>
  /\ UNCHANGED <<engineVars, handlerVars>>

-----------------------------------------------------------------------------
(* Specification *)

Init ==
  /\ pc = "idle"
  /\ caller = "direct"
  /\ url = <<>>
  /\ video_id = <<>>
  /\ preferred_language = auto
  /\ provider = NoAnswers
  /\ selected = NoSelection
  /\ result = NoResult
  /\ calls = <<>>
  /\ outcome = Returned(NoResult)
  /\ hpc = "idle"
  /\ request = [urls |-> <<>>, preferred_language |-> auto]
  /\ idx = 0
  /\ attempt = 0
  /\ all_transcripts = <<>>
  /\ failed_urls = <<>>
  /\ log = <<>>
  /\ response = NoResponse
  /\ apc = "idle"
  /\ cpc = "idle"
  /\ origin = ""
  /\ frontend_process = "None"
  /\ backend_process = "None"
  /\ signalled = {}

Next ==
  \/ DirectCall
  \/ ListTranscripts
  \/ FetchTrack
  \/ ReadTranslationLanguages
  \/ TranslateTrack
  \/ FetchTranslated
  \/ ProviderBlocks
  \/ PostRequest
  \/ Attempt
  \/ HandleOutcome
  \/ Sleep
  \/ Respond

Spec == Init /\ [][Next]_vars

\* the server alone: no step of get_transcript's body belongs to a request,
\* because the call made at line 113 does not bind (see Attempt)
BatchNext ==
  \/ PostRequest
  \/ Attempt
  \/ HandleOutcome
  \/ Sleep
  \/ Respond

BatchSpec == Init /\ [][BatchNext]_vars

\* the handler runs to completion once started: every call and every sleep
\* returns and nothing else stops the coroutine
FairBatchSpec == BatchSpec /\ WF_vars(Attempt) /\ WF_vars(HandleOutcome)
                   /\ WF_vars(Sleep) /\ WF_vars(Respond)

\* every step of the code is taken once it can be; whether a call of the
\* provider returns is up to the provider
FairSpec ==
  /\ Spec
  /\ WF_vars(ListTranscripts) /\ WF_vars(FetchTrack)
  /\ WF_vars(ReadTranslationLanguages) /\ WF_vars(TranslateTrack)
  /\ WF_vars(FetchTranslated)
  /\ WF_vars(Attempt) /\ WF_vars(HandleOutcome)
  /\ WF_vars(Sleep) /\ WF_vars(Respond)

\* get_transcript fed every payload: one direct call with preference AUTO,
\* a catalog of a single manual English track, any payload fetched
PayloadCall ==
  DirectCall /\ url' = WatchUrl /\ preferred_language' = auto

PayloadList ==
  /\ ListTranscripts
  /\ provider'.list = "ok"
  /\ provider'.manual = <<en>> /\ provider'.generated = <<>>

PayloadFetch == FetchTrackFrom(ProviderPayloads)

PayloadNext ==
  \/ PayloadCall
  \/ PayloadList
  \/ PayloadFetch

PayloadSpec == Init /\ [][PayloadNext]_vars

\* The same call with the payloads of TimestampPayloads
TimestampFetch == FetchTrackFrom(TimestampPayloads)

TimestampNext == PayloadCall \/ PayloadList \/ TimestampFetch

TimestampSpec == Init /\ [][TimestampNext]_vars

\* python new-app.py: AppManager().run()
AppNext ==
  \/ RunApp
  \/ StartBackend
  \/ StartFrontend
  \/ ProcessExits
  \/ Monitor
  \/ Signal
  \/ CleanupFrontend
  \/ WaitFrontend
  \/ CleanupBackend
  \/ WaitBackend
  \/ CleanupEnds

AppSpec == Init /\ [][AppNext]_vars

\* extract_video_id fed every resolver input: one direct call, which
\* resolves the reference at line 74 before anything else
ResolverCall == DirectCallWith(ResolverInputs)

ResolverSpec == Init /\ [][ResolverCall]_vars

-----------------------------------------------------------------------------
(* Properties of the selection policy *)

Range(q) == {q[i] : i \in 1..Len(q)}

ManualCodes == Range(provider.manual)

GeneratedCodes == Range(provider.generated)

CatalogCodes == ManualCodes \cup GeneratedCodes

Matching(codes, lang) == {c \in codes : StartsWith(c, lang)}

\* the listing succeeded and the code after it has run
Listed ==
  /\ provider.list = "ok"
  /\ pc \in {"fetch", "translation_languages", "translate",
             "fetch_translated", "returned"}

\* the languages a selection tries, in order
Tried ==
  IF preferred_language = auto THEN <<en, hi>>
  ELSE <<preferred_language, en, hi>>

\* Tried[k] is the first tried language some track of the catalog matches
IsTier(k) ==
  /\ Matching(CatalogCodes, Tried[k]) # {}
  /\ \A j \in 1..(k - 1) : Matching(CatalogCodes, Tried[j]) = {}

FetchedTracks ==
  {calls[k].track : k \in {j \in 1..Len(calls) : calls[j].op = "fetchTrack"}}

\* C1: at every selection tier, when a manual and an auto-generated track
\* both match the language being tried, the track selected and fetched is the
\* manual one and the result has is_generated = false
C1_ManualOverAuto ==
  (Listed /\ selected.found) =>
    \A k \in 1..Len(Tried) :
      (/\ IsTier(k)
       /\ Matching(ManualCodes, Tried[k]) # {}
       /\ Matching(GeneratedCodes, Tried[k]) # {})
      => /\ ~selected.transcript.is_generated
         /\ ~selected.is_generated
         /\ \A t \in FetchedTracks : ~t.is_generated
         /\ (pc = "returned" /\ ~outcome.raised)
              => ~outcome.result.is_generated

\* C2: with an explicit preference P the selected track starts with P
\* exactly when some track of the catalog starts with P; the fallbacks are
\* used only when none does
C2_ExplicitPreferenceWins ==
  (Listed /\ selected.found /\ preferred_language # auto) =>
    /\ selected.language \in CatalogCodes
    /\ selected.transcript.language_code = selected.language
    /\ (Matching(CatalogCodes, preferred_language) # {}
          <=> StartsWith(selected.language, preferred_language))

C2_Witness ==
  /\ pc = "returned" /\ ~outcome.raised
  /\ preferred_language = en
  /\ provider.manual = <<hi, enUS>>
  /\ selected.language = enUS
  /\ outcome.result.original_language = enUS

\* C3: in the fallback (preference AUTO, or explicit and unmatched) an "en"
\* track is selected if one exists, an "hi" track only if no "en" track
\* exists, any other track only if neither exists
C3_FallbackOrder ==
  (/\ Listed /\ selected.found
   /\ \/ preferred_language = auto
      \/ Matching(CatalogCodes, preferred_language) = {})
  => /\ Matching(CatalogCodes, en) # {} => StartsWith(selected.language, en)
     /\ StartsWith(selected.language, hi)
          => Matching(CatalogCodes, en) = {}
     /\ (~StartsWith(selected.language, en)
           /\ ~StartsWith(selected.language, hi))
          => /\ Matching(CatalogCodes, en) = {}
             /\ Matching(CatalogCodes, hi) = {}

C3_Witness ==
  /\ pc = "returned" /\ ~outcome.raised
  /\ preferred_language = auto
  /\ provider.manual = <<hi>>
  /\ provider.generated = <<enUS>>
  /\ selected.language = enUS

\* C4: when the catalog is not empty and no track matches the preference,
\* English or Hindi, the first manual track is selected without error if a
\* manual track exists, otherwise the first auto-generated track
C4_FirstTrackFallback ==
  (/\ Listed
   /\ CatalogCodes # {}
   /\ \A k \in 1..Len(Tried) : Matching(CatalogCodes, Tried[k]) = {})
  => /\ selected.found
     /\ selected.transcript =
          IF provider.manual # <<>> THEN Track(provider.manual[1], FALSE)
          ELSE Track(provider.generated[1], TRUE)

\* C5: when the listing succeeds with an empty catalog get_transcript raises
\* the no-transcript-available error, returns no result and calls neither
\* fetchTrack nor translateTrack
C5_EmptyCatalog ==
  (pc = "returned" /\ provider.list = "ok" /\ CatalogCodes = {}) =>
    /\ outcome.raised
    /\ outcome.exc = "TranscriptError"
    /\ outcome.error = <<MsgFailedToGet, MsgNoTranscript>>
    /\ outcome.result = NoResult
    /\ result = NoResult
    /\ \A k \in 1..Len(calls) : calls[k].op = "listTracks"

C5_Witness ==
  /\ pc = "returned" /\ outcome.raised
  /\ provider.list = "ok"
  /\ provider.manual = <<>> /\ provider.generated = <<>>
  /\ preferred_language = hi
  /\ Len(calls) = 1

-----------------------------------------------------------------------------
(* Properties of the retry loop of fetch_transcripts *)

\* transcript.fetch() at line 163 is the one request variant of a round
Strategies == 1

LogOf(i, kind) == {k \in 1..Len(log) : log[k].idx = i /\ log[k].kind = kind}

\* the outer loop has left the url at position i
Processed(i) == i \in 1..Len(request.urls) /\ idx > i

FailedEntries(i) ==
  {failed_urls[k].error :
     k \in {j \in 1..Len(failed_urls) : failed_urls[j].url = request.urls[i]}}

\* C6: when every fetch of every round fails for a video (its reference
\* resolves and its listings succeed with a track to fetch) the provider
\* fetch calls made for it number rounds x strategies, 3 rounds, and the
\* error reported for it is the one the last fetch raised
C6_ExhaustiveFailureCount ==
  \A i \in 1..Len(request.urls) :
    (/\ Processed(i)
     /\ ~extract_video_id(request.urls[i]).raised
     /\ \A k \in LogOf(i, "listTracks") :
          log[k].answer = "ok" /\ log[k].n > 0
     /\ \A k \in LogOf(i, "fetchTrack") : log[k].answer = "error")
    => /\ Cardinality(LogOf(i, "fetchTrack")) = 3 * Strategies
       /\ <<MsgFailedToGet, MsgFetchFailed, MsgProvider>> \in FailedEntries(i)

\* the attempt whose error is logged at position k failed with a permanent
\* condition: invalid reference, captions disabled, no track at all
PermanentCondition(k) ==
  \/ extract_video_id(request.urls[log[k].idx]).raised
  \/ /\ k > 1
     /\ log[k - 1].kind = "listTracks"
     /\ log[k - 1].idx = log[k].idx
     /\ \/ log[k - 1].answer = "disabled"
        \/ log[k - 1].answer = "ok" /\ log[k - 1].n = 0

\* C8: an attempt that fails with a permanent condition is the last thing
\* done for its url, no retry round and no backoff sleep follows it, and
\* the error reported for an invalid reference names that condition
C8_PermanentNotRetried ==
  /\ \A k \in 1..Len(log) :
       (log[k].kind = "error" /\ PermanentCondition(k))
       => \/ k = Len(log) /\ hpc # "sleep"
          \/ k < Len(log) /\ log[k + 1].idx # log[k].idx
  /\ \A i \in 1..Len(request.urls) :
       (Processed(i) /\ extract_video_id(request.urls[i]).raised)
       => \A e \in FailedEntries(i) : InSeq(MsgInvalidUrl, e)

\* C9: a failed round a that is not the final one is followed by exactly one
\* sleep of 2^a seconds and then by round a + 1; a sleep follows nothing
\* else, so none follows the final round or a success
C9_BackoffSchedule ==
  \A k \in 1..Len(log) :
    /\ log[k].kind = "sleep"
       => /\ k > 1
          /\ log[k - 1].kind = "error"
          /\ log[k - 1].idx = log[k].idx
          /\ log[k - 1].n < 2
          /\ log[k].n = 2 ^ log[k - 1].n
          /\ k < Len(log)
               => log[k + 1] = Event("attempt", log[k].idx, log[k - 1].n + 1)
    /\ (log[k].kind = "error" /\ log[k].n < 2)
       => \/ k = Len(log) /\ hpc = "sleep"
          \/ k < Len(log) /\ log[k + 1].kind = "sleep"
    /\ (log[k].kind = "attempt" /\ log[k].n > 0)
       => k > 1 /\ log[k - 1].kind = "sleep"

C9_Witness ==
  /\ hpc = "done"
  /\ \E k \in 1..Len(log) :
       /\ k + 3 <= Len(log)
       /\ log[k] = Event("error", 1, 0)
       /\ log[k + 1] = Event("sleep", 1, 1)
       /\ log[k + 2] = Event("attempt", 1, 1)
       /\ log[k + 3] = Event("error", 1, 1)
  /\ Event("sleep", 1, 2) \in Range(log)
  /\ Cardinality(LogOf(1, "sleep")) = 2

\* C10: every get_transcript call and every batch request comes to an end,
\* and no url of a request is attempted more than 3 times
C10_BoundedRetriesTerminate ==
  /\ [](\A i \in 1..Len(request.urls) :
          Cardinality(LogOf(i, "attempt")) <= 3)
  /\ (hpc = "called") ~> (hpc # "called")
  /\ (hpc # "idle") ~> (hpc = "done")

C10_Witness ==
  /\ hpc = "done"
  /\ Len(request.urls) = 2
  /\ \A i \in 1..2 : Cardinality(LogOf(i, "attempt")) = 3

-----------------------------------------------------------------------------
(* Properties of the translation fallback *)

\* the result get_transcript holds before line 234, from what was fetched
Untranslated == OriginalResult(Assemble(provider.payload), selected)

\* the translation branch of lines 237-288 was entered and something in it
\* raised
TranslationFailed ==
  \/ provider.tl_read = "error"
  \/ provider.translate = "error"
  \/ provider.tfetch = "error"
  \/ provider.tfetch = "ok" /\ RenderTranslated(provider.tpayload).raised

TranslateCalls == {k \in 1..Len(calls) : calls[k].op = "translateTrack"}

\* the codes the catalog advertises as translation targets
Advertised ==
  {provider.translation_languages[i].language_code :
     i \in 1..Len(provider.translation_languages)}

\* C12: when reading the translation set, the translate call, the fetch of
\* the translated track or the parsing of its entries fails, get_transcript
\* still returns, and what it returns is the untranslated result: original
\* text, language of the selected track, translated = false
C12_TranslationFailureRecovered ==
  (pc = "returned" /\ TranslationFailed) =>
    /\ ~outcome.raised
    /\ outcome.result = Untranslated
    /\ outcome.result.language = selected.language
    /\ ~outcome.result.translated

C12_Witness ==
  /\ pc = "returned" /\ ~outcome.raised
  /\ preferred_language = hi
  /\ selected.language = en
  /\ provider.payload = Payload("list", <<e_a, e_b>>)
  /\ provider.tfetch = "ok"
  /\ provider.tpayload = Payload("list", <<e_nostart>>)
  /\ outcome.result.language = en
  /\ outcome.result.text # <<>>

\* C13: translateTrack is called only with an explicit preference that the
\* selected track does not satisfy; a track whose languageCode starts with
\* the preference (a regional variant included) is returned as it is, with
\* translated = false and its own code as language
C13_TranslationOnlyOnMismatch ==
  /\ TranslateCalls # {} =>
       /\ preferred_language # auto
       /\ ~StartsWith(selected.language, preferred_language)
  /\ (/\ pc = "returned" /\ ~outcome.raised /\ selected.found
      /\ \/ preferred_language = auto
         \/ StartsWith(selected.language, preferred_language))
     => /\ ~outcome.result.translated
        /\ outcome.result.language = selected.language

\* C14: translateTrack is called on a track only if the track is
\* translatable and the preference is in the advertised translation set
C14_TranslatePrecondition ==
  TranslateCalls # {} =>
    /\ provider.is_translatable
    /\ preferred_language \in Advertised

\* C15: a returned result has translated = true exactly when its text is the
\* text of a translated track fetched and rendered without error; then
\* language is the explicit preference and original_language the selected
\* track's code; otherwise translated = false and language and
\* original_language are both the selected track's code
C15_LanguageFlags ==
  (pc = "returned" /\ ~outcome.raised) =>
    LET r == outcome.result
        t == RenderTranslated(provider.tpayload)
    IN /\ r.translated <=> (provider.tfetch = "ok" /\ ~t.raised)
       /\ r.translated =>
            /\ preferred_language \in {en, hi}
            /\ r.language = preferred_language
            /\ r.original_language = selected.language
            /\ r.text = Strip(t.text)
       /\ ~r.translated =>
            /\ r.language = selected.language
            /\ r.original_language = selected.language
            /\ r.text = Untranslated.text
       /\ r.is_generated = selected.is_generated
       /\ r.duration = Untranslated.duration

C15_Witness ==
  /\ pc = "returned" /\ ~outcome.raised
  /\ provider.manual = <<fr>> /\ provider.generated = <<>>
  /\ preferred_language = en
  /\ provider.is_translatable
  /\ en \in Advertised
  /\ outcome.result.language = en
  /\ outcome.result.translated
  /\ outcome.result.original_language = fr
  /\ outcome.result.text # <<>>

\* C16: a translated payload that yields no entries counts as translation
\* unavailable, the result is the untranslated one; a result with
\* translated = true carries the text of at least one translated entry
C16_TranslatedPayloadNormalized ==
  (pc = "returned" /\ ~outcome.raised) =>
    /\ (provider.tfetch = "ok" /\ Normalize(provider.tpayload) = <<>>)
         => outcome.result = Untranslated
    /\ outcome.result.translated => outcome.result.text # <<>>

-----------------------------------------------------------------------------
(* Properties of normalisation and assembly *)

\* what get_transcript returns or raises, under AUTO, for an assembly a
OutcomeOf(a) ==
  IF a.raised THEN Raised("TranscriptError", <<MsgFailedToGet>> \o a.error)
  ELSE Returned(OriginalResult(a, selected))

\* a fetch has answered and get_transcript has come to its end
Fetched == pc = "returned" /\ provider.fetch = "ok"

\* every item carries start, duration and text
Complete(items) == \A i \in 1..Len(items) : items[i].fields = Fields

\* the same values as a list of records and as an iterable of objects
RecordShaped(items) ==
  Payload("list", [i \in 1..Len(items) |-> [items[i] EXCEPT !.form = "dict"]])

AttributeShaped(items) ==
  Payload("iterable",
          [i \in 1..Len(items) |-> [items[i] EXCEPT !.form = "obj"]])

\* C17: a list of records and an iterable of objects carrying the same
\* (start, duration, text) values give the same normalized entries and the
\* same outcome: the same text and the same duration
C17_ShapeEquivalence ==
  LET p == provider.payload
      rec == RecordShaped(p.items)
      att == AttributeShaped(p.items)
  IN (Fetched /\ Complete(p.items) /\ p \in {rec, att}) =>
       /\ Normalize(rec) = Normalize(att)
       /\ outcome = OutcomeOf(Assemble(rec))
       /\ outcome = OutcomeOf(Assemble(att))

C17_Witness ==
  /\ Fetched /\ ~outcome.raised
  /\ provider.payload =
       AttributeShaped(<<Entry("obj", Fields, 615, 20, <<" ", "b", " ">>),
                         Entry("obj", Fields, 615, 20, <<"a">>)>>)
  /\ outcome.result.duration = 635
  /\ outcome.result.text =
       <<"[", "0", ":", "0", "1", ":", "0", "1", "]", " ", "b", "\n",
         "[", "0", ":", "0", "1", ":", "0", "1", "]", " ", "a">>

\* the item with every field it lacks set to 0 or to the empty text
Defaulted(e) == [e EXCEPT !.fields = Fields]

\* C18: in every payload shape an item lacking start or duration is
\* processed as if the field were 0 and an item lacking text as if its text
\* were empty: the outcome is the outcome for the payload with the defaults
\* filled in, so no missing field fails the call or costs an entry
C18_MissingFieldsDefaulted ==
  LET p == provider.payload
      q == [p EXCEPT !.items = [i \in 1..Len(p.items) |->
                                  Defaulted(p.items[i])]]
  IN (Fetched /\ p.shape # "opaque") => outcome = OutcomeOf(Assemble(q))

\* no entry can be extracted: an empty sequence, an iterable none of whose
\* items has the three fields, a non-iterable object with no transcript
\* sequence or an empty one
NothingExtractable(p) ==
  \/ p.shape = "list" /\ p.items = <<>>
  \/ p.shape = "iterable"
       /\ \A i \in 1..Len(p.items) : ~(Fields \subseteq p.items[i].fields)
  \/ p.shape = "wrapper" /\ p.items = <<>>
  \/ p.shape = "opaque"

\* C19: when no entry can be extracted from the fetched payload,
\* get_transcript raises an error and returns no result
C19_MalformedPayload ==
  (Fetched /\ NothingExtractable(provider.payload)) =>
    /\ outcome.raised
    /\ outcome.exc = "TranscriptError"
    /\ outcome.error = <<MsgFailedToGet, MsgFetchFailed, MsgNoData>>
    /\ outcome.result = NoResult
    /\ result = NoResult

C19_Witness ==
  /\ Fetched /\ outcome.raised
  /\ provider.payload =
       Payload("iterable",
               <<Entry("obj", {"start", "text"}, 615, 0, <<"a">>)>>)
  /\ InSeq(MsgNoData, outcome.error)

\* the lines of a text: its pieces between line breaks
RECURSIVE SplitLines(_)
SplitLines(s) ==
  IF s = <<>> THEN <<>>
  ELSE LET breaks == {i \in 1..Len(s) : s[i] = "\n"}
       IN IF breaks = {} THEN <<s>>
          ELSE LET i == CHOOSE j \in breaks : \A k \in breaks : j <= k
               IN <<SubSeq(s, 1, i - 1)>>
                    \o SplitLines(SubSeq(s, i + 1, Len(s)))

TrimmedText(e) == IF "text" \in e.fields THEN Strip(e.text) ELSE <<>>

StartOf(e) == IF "start" \in e.fields THEN e.start ELSE 0

\* C20: the assembled text holds exactly one line per entry whose trimmed
\* text is not empty, "[timestamp] text", in the provider's order; an entry
\* whose trimmed text is empty gives no line
C20_OrderPreservedBlanksDropped ==
  (Fetched /\ ~outcome.raised /\ ~outcome.result.translated) =>
    LET kept == SelectSeq(Normalize(provider.payload),
                          LAMBDA e : TrimmedText(e) # <<>>)
    IN SplitLines(outcome.result.text) =
         [i \in 1..Len(kept) |->
            <<"[">> \o format_duration(StartOf(kept[i])) \o <<"]", " ">>
              \o TrimmedText(kept[i])]

DurationOf(e) == IF "duration" \in e.fields THEN e.duration ELSE 0

HMS(tenths) ==
  LET secs == tenths \div 10
  IN NatToStr(secs \div 3600) \o <<":">> \o Pad2((secs % 3600) \div 60)
       \o <<":">> \o Pad2(secs % 60)

\* C22: the line of every entry with start s is "[H:MM:SS] " followed by
\* the trimmed text, H:MM:SS being s truncated to whole seconds as hours,
\* two-digit minutes and two-digit seconds, and the whole text ends with
\* no whitespace
C22_TimestampRendering ==
  (Fetched /\ ~outcome.raised) =>
    LET kept == SelectSeq(Normalize(provider.payload),
                          LAMBDA e : TrimmedText(e) # <<>>)
        text == outcome.result.text
    IN /\ SplitLines(text) =
            [i \in 1..Len(kept) |->
               <<"[">> \o HMS(StartOf(kept[i])) \o <<"]", " ">>
                 \o TrimmedText(kept[i])]
       /\ text # <<>> => text[Len(text)] \notin {" ", "\n", "\t"}

-----------------------------------------------------------------------------
(* Properties of the blocking operations *)

\* C11: a provider call that never returns is cancelled by a timeout, so the
\* get_transcript call it belongs to comes to an end and every batch request
\* completes
C11_PerReferenceTimeout ==
  /\ (pc = "blocked") ~> (pc = "returned")
  /\ (hpc # "idle") ~> (hpc = "done")

-----------------------------------------------------------------------------
(* Properties of the response of fetch_transcripts *)

\* provider calls recorded in the log that did not succeed
FailedProviderCalls ==
  {k \in 1..Len(log) :
     /\ log[k].kind \in {"listTracks", "fetchTrack", "translateTrack"}
     /\ log[k].answer # "ok"}

\* C26: a request with preference "auto" whose urls resolve and whose
\* provider calls all succeed is answered with status 200 and a transcripts
\* map that holds each url
C26_SuccessfulBatch ==
  (/\ hpc = "done"
   /\ request.urls # <<>>
   /\ request.preferred_language = auto
   /\ \A i \in 1..Len(request.urls) :
        ~extract_video_id(request.urls[i]).raised
   /\ FailedProviderCalls = {})
  => /\ response.status_code = 200
     /\ \A i \in 1..Len(request.urls) :
          request.urls[i] \in DOMAIN response.transcripts

\* C27: a request none of whose urls yields a transcript, or whose url
\* list is empty, is answered with status 400
C27_ClientErrorReporting ==
  (hpc = "done" /\ DOMAIN all_transcripts = {}) =>
    response.status_code = 400

\* entries of failed_urls that name the url u
FailedEntriesOf(u) == {k \in 1..Len(failed_urls) : failed_urls[k].url = u}

\* C29: once the url list is processed every requested url is a key of
\* transcripts or named by an entry of failed_urls, never both, and
\* failed_urls holds at most one entry per url
C29_BatchOutcomePartition ==
  hpc \in {"respond", "done"} =>
    \A i \in 1..Len(request.urls) :
      LET u == request.urls[i]
      IN /\ (u \in DOMAIN all_transcripts) # (FailedEntriesOf(u) # {})
         /\ Cardinality(FailedEntriesOf(u)) <= 1

-----------------------------------------------------------------------------
(* Properties of the origin flag *)

\* C28: whatever the tier of the selection and the catalog, the result's
\* is_generated is true exactly when the track whose payload was fetched is
\* an auto-generated track, also when a languageCode is in both partitions
C28_OriginFlagMatchesTrack ==
  /\ \A t \in FetchedTracks : selected.is_generated = t.is_generated
  /\ (pc = "returned" /\ ~outcome.raised) =>
       /\ FetchedTracks # {}
       /\ \A t \in FetchedTracks :
            outcome.result.is_generated = t.is_generated

C28_Witness ==
  /\ pc = "returned" /\ ~outcome.raised
  /\ InSeq(selected.language, provider.manual)
  /\ InSeq(selected.language, provider.generated)
  /\ outcome.result.is_generated
  /\ \A t \in FetchedTracks : t.is_generated

-----------------------------------------------------------------------------
(* Properties of the order of provider calls *)

CallsOf(op) == {k \in 1..Len(calls) : calls[k].op = op}

\* C25: within one get_transcript call no provider call is made for a
\* reference that does not resolve; the listing is called once and first;
\* fetchTrack is called only after the listing succeeded and a track was
\* selected; translateTrack is called only after the selected track's
\* payload was fetched and parsed; after a failed listing no further call
\* is made
C25_PipelineOrder ==
  /\ calls # <<>> => video_id # <<>> /\ ~extract_video_id(url).raised
  /\ calls # <<>> => CallsOf("listTracks") = {1}
  /\ \A k \in CallsOf("fetchTrack") :
       /\ calls[1].answer = "ok"
       /\ selected # NoSelection
       /\ 1 < k
  /\ \A k \in CallsOf("translateTrack") :
       /\ \E j \in CallsOf("fetchTrack") :
            /\ j < k
            /\ calls[j].track = selected.transcript
            /\ calls[j].answer = "ok"
       /\ ~Assemble(provider.payload).raised
  /\ (calls # <<>> /\ calls[1].answer # "ok") => Len(calls) = 1

C25_Witness ==
  /\ pc = "returned"
  /\ Len(calls) = 4
  /\ calls[1].op = "listTracks"
  /\ calls[2].op = "fetchTrack"
  /\ calls[3].op = "translateTrack"
  /\ calls[4].op = "fetchTrack"

-----------------------------------------------------------------------------
(* Properties of AppManager.cleanup *)

\* the children that have been started
Started ==
  {p \in {"frontend", "backend"} :
     (IF p = "frontend" THEN frontend_process ELSE backend_process)
       # "None"}

\* C30: when cleanup returns or raises, each of the frontend and backend
\* processes that has been started was sent terminate by it, whatever the
\* state of the other process
C30_CleanupStopsEveryChild ==
  cpc \in {"returned", "raised"} => Started \subseteq signalled

-----------------------------------------------------------------------------
(* Properties of extract_video_id *)

Contains(s, piece) ==
  \E i \in 1..Len(s) :
    i + Len(piece) - 1 <= Len(s) /\ SubSeq(s, i, i + Len(piece) - 1) = piece

\* the string holds a v parameter, the short host or the embed path
HasSupportedShape(s) ==
  \/ Contains(s, <<"v", "=">>)
  \/ Contains(s, <<"y", "o", "u", "t", "u", ".", "b", "e", "/">>)
  \/ Contains(s, <<"/", "e", "m", "b", "e", "d", "/">>)

\* C23: for every identifier ID the watch form, the short form and the
\* embed form of ID all resolve to exactly ID
C23_ResolverAgreement ==
  \A id \in Ids :
    (pc # "idle"
       /\ url \in WatchForms(id) \cup ShortForms(id) \cup EmbedForms(id))
    => /\ video_id = id
       /\ ~outcome.raised
       /\ pc = "list"

C23_Witness ==
  /\ pc = "list"
  /\ url = <<"y", "o", "u", "t", "u", "b", "e", ".", "c", "o", "m", "/",
             "e", "m", "b", "e", "d", "/",
             "-", "_", "-", "_", "-", "_", "-", "_", "-", "_", "-">>
  /\ video_id = <<"-", "_", "-", "_", "-", "_", "-", "_", "-", "_", "-">>

\* C24: for a string that holds none of the supported URL shapes
\* extract_video_id raises the invalid-reference error and returns no
\* identifier
C24_ResolverRejection ==
  (pc # "idle" /\ ~HasSupportedShape(url)) =>
    /\ pc = "returned"
    /\ outcome.raised
    /\ outcome.error = <<MsgFailedToGet, MsgInvalidUrl>>
    /\ video_id = <<>>

====
